---- MODULE Spec2Model ----
(***************************************************************************)
(* Model of multilingual_import.py: build_graph (concept-set expansion,    *)
(* IS_A closure, domain exclusion, name merge, relationship filter) and    *)
(* the MultilingualNeo4jGraphBuilder sink it drives.                       *)
(*                                                                         *)
(* Data frames whose row order and multiplicity matter to the code that    *)
(* is modelled (synonyms, concepts, names) are sequences of records; the   *)
(* relationship table is only ever filtered by membership, so it is a set  *)
(* of rows.                                                                *)
(***************************************************************************)
EXTENDS Integers, Sequences, FiniteSets, TLC

(***************************************************************************)
(* Bounds of the model.                                                    *)
(***************************************************************************)
NumConcepts == 4     \* concept identifiers are 1..NumConcepts
MaxRels == 3         \* rows of the relationship table (hierarchy inputs)
MixedConcepts == 3   \* concept identifiers of the mixed-kind inputs
MaxMixedRels == 2    \* rows of the relationship table (mixed-kind inputs)
MaxSeeds == 2        \* concepts 1..k carry a target-language synonym
MaxExcluded == 1     \* concepts tagged with an excluded domain
NameConcepts == 2    \* concept identifiers of the name inputs
MaxSyn == 2          \* rows of the synonym table (name inputs)
SinkConcepts == 2    \* concept identifiers of the sink inputs
MaxSinkRels == 2     \* rows of the relationship table (sink inputs)
TravNodes == 4       \* concepts of the stepwise traversal
MaxExtra == 2        \* IS_A rows beside the cycle in the stepwise traversal

ConceptIds == 1..NumConcepts

(***************************************************************************)
(* Program constants.                                                      *)
(***************************************************************************)
EXCLUDED_DOMAINS == {"Geography"}
batch_size == 1000

\* language_id.csv: language_concept_id -> language_name (the target languages)
language_map == [zh |-> "Chinese", de |-> "German"]

RelKinds == {"Is a", "Maps to", "Subsumes"}
NoValue == "NaN"

VARIABLES
    \* inputs (files of the data directory)
    synonyms_df, relationships_df, concepts_df, cm_sheet, pcs_sheet,
    \* build_graph locals
    pc, target_synonyms, icd10cm_chinese, icd10pcs_chinese,
    concepts_to_import, additional_concepts, all_concept_ids,
    excluded_concept_ids, final_concepts, names_list, names_df,
    is_a_rels, maps_to_rels,
    \* the graph sink
    driver, db, sink_log, batch_i,
    \* stepwise traversal (get_all_ancestors / get_all_descendants)
    t_edges, t_dir, t_start, t_stack, t_visited, t_adds, t_pc

inputVars == <<synonyms_df, relationships_df, concepts_df, cm_sheet, pcs_sheet>>
localVars == <<target_synonyms, icd10cm_chinese, icd10pcs_chinese,
               concepts_to_import, additional_concepts, all_concept_ids,
               excluded_concept_ids, final_concepts, names_list, names_df,
               is_a_rels, maps_to_rels>>
sinkVars == <<driver, db, sink_log, batch_i>>
travVars == <<t_edges, t_dir, t_start, t_stack, t_visited, t_adds, t_pc>>
vars == <<inputVars, pc, localVars, sinkVars, travVars>>

(***************************************************************************)
(* Generic helpers.                                                        *)
(***************************************************************************)
RECURSIVE SubsetsUpTo(_, _)
SubsetsUpTo(S, k) ==
    IF k = 0 THEN {{}}
    ELSE LET prev == SubsetsUpTo(S, k - 1)
         IN  prev \cup {s \cup {x} : s \in prev, x \in S}

SeqsUpTo(S, k) == UNION {[1..n -> S] : n \in 0..k}

SeqToSet(s) == {s[i] : i \in DOMAIN s}

Min(a, b) == IF a < b THEN a ELSE b

(***************************************************************************)
(* Step 6b: the IS_A lookup dictionaries and the recursive traversals.     *)
(***************************************************************************)
IsARows(rels) == {r \in rels : r.relationship_id = "Is a"}

\* parents[child] = set of parent ids (keys: the ids that occur as a child)
BuildParents(isa) ==
    [c \in {r.concept_id_1 : r \in isa} |->
        {r.concept_id_2 : r \in {q \in isa : q.concept_id_1 = c}}]

\* children[parent] = set of child ids (keys: the ids that occur as a parent)
BuildChildren(isa) ==
    [p \in {r.concept_id_2 : r \in isa} |->
        {r.concept_id_1 : r \in {q \in isa : q.concept_id_2 = p}}]

RECURSIVE get_all_ancestors(_, _, _)
RECURSIVE AncestorsLoop(_, _, _)

\* the for loop of get_all_ancestors: every parent is visited with the one
\* shared visited set
AncestorsLoop(parents, todo, visited) ==
    IF todo = {} THEN visited
    ELSE LET parent_id == CHOOSE x \in todo : TRUE
         IN  AncestorsLoop(parents, todo \ {parent_id},
                           get_all_ancestors(parents, parent_id, visited))

get_all_ancestors(parents, concept_id, visited) ==
    IF concept_id \in visited THEN visited
    ELSE IF concept_id \in DOMAIN parents
         THEN AncestorsLoop(parents, parents[concept_id], visited \cup {concept_id})
         ELSE visited \cup {concept_id}

RECURSIVE get_all_descendants(_, _, _)
RECURSIVE DescendantsLoop(_, _, _)

DescendantsLoop(children, todo, visited) ==
    IF todo = {} THEN visited
    ELSE LET child_id == CHOOSE x \in todo : TRUE
         IN  DescendantsLoop(children, todo \ {child_id},
                             get_all_descendants(children, child_id, visited))

get_all_descendants(children, concept_id, visited) ==
    IF concept_id \in visited THEN visited
    ELSE IF concept_id \in DOMAIN children
         THEN DescendantsLoop(children, children[concept_id], visited \cup {concept_id})
         ELSE visited \cup {concept_id}

(***************************************************************************)
(* Steps 1-4: loading.                                                     *)
(***************************************************************************)
\* Step 2: the synonym rows whose language is a key of language_map
TargetSynonyms(syn) ==
    SelectSeq(syn, LAMBDA r : r.language_concept_id \in DOMAIN language_map)

ConceptsWithTranslations(tsyn) == {tsyn[i].concept_id : i \in DOMAIN tsyn}

\* Step 3: a sheet row contributes code -> name when both cells are usable;
\* a later row of the same code overwrites an earlier one
UsableCell(v) == v # NoValue /\ v # "" /\ v # "nan"

BuildChineseDict(rows) ==
    LET ok == {i \in DOMAIN rows : UsableCell(rows[i].code) /\ UsableCell(rows[i].name)}
        last(c) == CHOOSE i \in ok : rows[i].code = c
                                     /\ \A j \in ok : rows[j].code = c => j <= i
    IN  [c \in {rows[i].code : i \in ok} |-> rows[last(c)].name]

ColumnsAlwaysResolve(sheet) == TRUE

\* [c for c in columns if ...][0] raises IndexError when no header matches
ColumnsResolve(sheet) == sheet.has_code_col /\ sheet.has_chinese_col

(***************************************************************************)
(* Steps 5-6: seeds and the one-hop neighbours.                            *)
(***************************************************************************)
RelatedRelsIsAOnly(rels, to_import) ==
    {r \in rels : /\ r.relationship_id = "Is a"
                  /\ (r.concept_id_1 \in to_import \/ r.concept_id_2 \in to_import)}

RelatedRels(rels, to_import) ==
    {r \in rels : /\ r.relationship_id \in {"Maps to", "Is a"}
                  /\ (r.concept_id_1 \in to_import \/ r.concept_id_2 \in to_import)}

AdditionalConcepts(rels, to_import) ==
    LET related_rels == RelatedRels(rels, to_import)
    IN  ({r.concept_id_1 : r \in related_rels} \cup {r.concept_id_2 : r \in related_rels})
        \ to_import

(***************************************************************************)
(* Step 6b: closure of the starting concepts over the IS_A hierarchy.      *)
(***************************************************************************)
AllHierarchyConceptsBlocked(rels, starting_concepts) ==
    LET blocked == {concepts_df[i].concept_id :
                      i \in {j \in DOMAIN concepts_df :
                               concepts_df[j].domain_id \in EXCLUDED_DOMAINS}}
        isa == {r \in IsARows(rels) : r.concept_id_1 \notin blocked
                                      /\ r.concept_id_2 \notin blocked}
        parents == BuildParents(isa)
        children == BuildChildren(isa)
    IN  UNION {get_all_ancestors(parents, c, {}) \cup get_all_descendants(children, c, {})
               : c \in starting_concepts}

AllHierarchyConcepts(rels, starting_concepts) ==
    LET isa == IsARows(rels)
        parents == BuildParents(isa)
        children == BuildChildren(isa)
    IN  UNION {get_all_ancestors(parents, c, {}) \cup get_all_descendants(children, c, {})
               : c \in starting_concepts}

ExpandedConceptIds(rels, to_import, additional) ==
    LET starting_concepts == to_import \cup additional
        hierarchy_only_concepts ==
            AllHierarchyConcepts(rels, starting_concepts) \ starting_concepts
    IN  to_import \cup additional \cup hierarchy_only_concepts

(***************************************************************************)
(* Step 7: the concept table of the expanded set, minus excluded domains.  *)
(***************************************************************************)
RECURSIVE DropDuplicateConcepts(_)
\* drop_duplicates(subset=['concept_id']): the first row of an id is kept
DropDuplicateConcepts(rows) ==
    IF rows = <<>> THEN <<>>
    ELSE LET front == DropDuplicateConcepts(SubSeq(rows, 1, Len(rows) - 1))
             row == rows[Len(rows)]
         IN  IF \E i \in DOMAIN front : front[i].concept_id = row.concept_id
             THEN front ELSE Append(front, row)

SelectedConcepts(cdf, ids) ==
    DropDuplicateConcepts(SelectSeq(cdf, LAMBDA r : r.concept_id \in ids))

ExcludedConcepts(selected) ==
    SelectSeq(selected, LAMBDA r : r.domain_id \in EXCLUDED_DOMAINS)

KeepAllDomains(selected) == selected

FilterDomains(selected) ==
    SelectSeq(selected, LAMBDA r : r.domain_id \notin EXCLUDED_DOMAINS)

ConceptIdsOf(rows) == {rows[i].concept_id : i \in DOMAIN rows}

(***************************************************************************)
(* Step 8: the name list (spreadsheet names first, then synonym names).    *)
(***************************************************************************)
chinese_lang_id == CHOOSE lid \in DOMAIN language_map : language_map[lid] = "Chinese"

NameRecord(cid, val, lid) ==
    [concept_id |-> cid, value |-> val, language_concept_id |-> lid,
     language_name |-> language_map[lid]]

ExcelNameOf(concept, cm, pcs) ==
    IF concept.vocabulary_id = "ICD10CM" /\ concept.concept_code \in DOMAIN cm
    THEN <<NameRecord(concept.concept_id, cm[concept.concept_code], chinese_lang_id)>>
    ELSE IF concept.vocabulary_id = "ICD10PCS" /\ concept.concept_code \in DOMAIN pcs
    THEN <<NameRecord(concept.concept_id, pcs[concept.concept_code], chinese_lang_id)>>
    ELSE <<>>

RECURSIVE ExcelNames(_, _, _)
ExcelNames(fc, cm, pcs) ==
    IF fc = <<>> THEN <<>>
    ELSE ExcelNames(SubSeq(fc, 1, Len(fc) - 1), cm, pcs)
         \o ExcelNameOf(fc[Len(fc)], cm, pcs)

\* vocabulary of the concept's row in final_concepts, "None" without a row
ConceptVocab(fc, cid) ==
    IF \E i \in DOMAIN fc : fc[i].concept_id = cid
    THEN fc[CHOOSE i \in DOMAIN fc : fc[i].concept_id = cid
                                     /\ \A j \in DOMAIN fc : fc[j].concept_id = cid => i <= j
           ].vocabulary_id
    ELSE "None"

KeepSynonymNoPrecedence(row, ids, fc) == row.concept_id \in ids

\* the two `continue`s of the synonym loop
KeepSynonym(row, ids, fc) ==
    /\ row.concept_id \in ids
    /\ ~ (language_map[row.language_concept_id] = "Chinese"
          /\ ConceptVocab(fc, row.concept_id) \in {"ICD10CM", "ICD10PCS"})

SynonymNames(tsyn, ids, fc) ==
    LET kept == SelectSeq(tsyn, LAMBDA r : KeepSynonym(r, ids, fc))
    IN  [i \in DOMAIN kept |->
            NameRecord(kept[i].concept_id, kept[i].concept_synonym_name,
                       kept[i].language_concept_id)]

NamesList(fc, cm, pcs, tsyn, ids) ==
    ExcelNames(fc, cm, pcs) \o SynonymNames(tsyn, ids, fc)

NameKey(n) == <<n.concept_id, n.language_concept_id, n.value>>

KeepAllNames(names) == names

RECURSIVE DropDuplicateNames(_)
\* drop_duplicates(subset=['concept_id', 'language_concept_id', 'value'])
DropDuplicateNames(names) ==
    IF names = <<>> THEN <<>>
    ELSE LET front == DropDuplicateNames(SubSeq(names, 1, Len(names) - 1))
             n == names[Len(names)]
         IN  IF \E i \in DOMAIN front : NameKey(front[i]) = NameKey(n)
             THEN front ELSE Append(front, n)

(***************************************************************************)
(* Step 9: the relationship rows between imported concepts.                *)
(***************************************************************************)
Edge(r) == [concept_id_1 |-> r.concept_id_1, concept_id_2 |-> r.concept_id_2]

FinalIsA(rels, final_concept_ids) ==
    {Edge(r) : r \in {q \in rels : /\ q.relationship_id = "Is a"
                                   /\ q.concept_id_1 \in final_concept_ids
                                   /\ q.concept_id_2 \in final_concept_ids}}

FinalMapsToOneEndpoint(rels, final_concept_ids) ==
    {Edge(r) : r \in {q \in rels : /\ q.relationship_id = "Maps to"
                                   /\ q.concept_id_1 \in final_concept_ids
                                   /\ q.concept_id_1 # q.concept_id_2}}

FinalMapsToWithSelf(rels, final_concept_ids) ==
    {Edge(r) : r \in {q \in rels : /\ q.relationship_id = "Maps to"
                                   /\ q.concept_id_1 \in final_concept_ids
                                   /\ q.concept_id_2 \in final_concept_ids}}

FinalMapsTo(rels, final_concept_ids) ==
    {Edge(r) : r \in {q \in rels : /\ q.relationship_id = "Maps to"
                                   /\ q.concept_id_1 \in final_concept_ids
                                   /\ q.concept_id_2 \in final_concept_ids
                                   /\ q.concept_id_1 # q.concept_id_2}}

(***************************************************************************)
(* build_graph, steps 1-9, as actions.                                     *)
(***************************************************************************)
\* Steps 1-4. A sheet without a matching code or Chinese-name column raises.
LoadInputs ==
    /\ pc = "step1"
    /\ target_synonyms' = TargetSynonyms(synonyms_df)
    /\ IF ~ ColumnsResolve(cm_sheet)
       THEN /\ pc' = "raised"
            /\ UNCHANGED <<icd10cm_chinese, icd10pcs_chinese>>
       ELSE /\ icd10cm_chinese' = BuildChineseDict(cm_sheet.rows)
            /\ IF ~ ColumnsResolve(pcs_sheet)
               THEN /\ pc' = "raised"
                    /\ UNCHANGED icd10pcs_chinese
               ELSE /\ icd10pcs_chinese' = BuildChineseDict(pcs_sheet.rows)
                    /\ pc' = "step5"
    /\ UNCHANGED <<inputVars, concepts_to_import, additional_concepts, all_concept_ids,
                   excluded_concept_ids, final_concepts, names_list, names_df,
                   is_a_rels, maps_to_rels, sinkVars, travVars>>

\* Steps 5, 6 and 6b.
Expand ==
    /\ pc = "step5"
    /\ LET to_import == ConceptsWithTranslations(target_synonyms)
           additional == AdditionalConcepts(relationships_df, to_import)
       IN  /\ concepts_to_import' = to_import
           /\ additional_concepts' = additional
           /\ all_concept_ids' = ExpandedConceptIds(relationships_df, to_import, additional)
    /\ pc' = "step7"
    /\ UNCHANGED <<inputVars, target_synonyms, icd10cm_chinese, icd10pcs_chinese,
                   excluded_concept_ids, final_concepts, names_list, names_df,
                   is_a_rels, maps_to_rels, sinkVars, travVars>>

\* Step 7.
Exclude ==
    /\ pc = "step7"
    /\ LET selected == SelectedConcepts(concepts_df, all_concept_ids)
           excluded == ConceptIdsOf(ExcludedConcepts(selected))
       IN  /\ final_concepts' = FilterDomains(selected)
           /\ excluded_concept_ids' = excluded
           /\ all_concept_ids' = all_concept_ids \ excluded
    /\ pc' = "step8"
    /\ UNCHANGED <<inputVars, target_synonyms, icd10cm_chinese, icd10pcs_chinese,
                   concepts_to_import, additional_concepts, names_list, names_df,
                   is_a_rels, maps_to_rels, sinkVars, travVars>>

\* Step 8. pd.DataFrame([]) has no columns: with an empty names_list the
\* per-language report reads names_df['language_name'] and raises KeyError.
BuildNames ==
    /\ pc = "step8"
    /\ LET names == NamesList(final_concepts, icd10cm_chinese, icd10pcs_chinese,
                              target_synonyms, all_concept_ids)
       IN  /\ names_list' = names
           /\ names_df' = DropDuplicateNames(names)
           /\ pc' = IF names = <<>> THEN "raised" ELSE "step9"
    /\ UNCHANGED <<inputVars, target_synonyms, icd10cm_chinese, icd10pcs_chinese,
                   concepts_to_import, additional_concepts, all_concept_ids,
                   excluded_concept_ids, final_concepts,
                   is_a_rels, maps_to_rels, sinkVars, travVars>>

\* Step 9.
FilterRelationships ==
    /\ pc = "step9"
    /\ LET final_concept_ids == ConceptIdsOf(final_concepts)
       IN  /\ is_a_rels' = FinalIsA(relationships_df, final_concept_ids)
           /\ maps_to_rels' = FinalMapsTo(relationships_df, final_concept_ids)
    /\ pc' = "step10"
    /\ UNCHANGED <<inputVars, target_synonyms, icd10cm_chinese, icd10pcs_chinese,
                   concepts_to_import, additional_concepts, all_concept_ids,
                   excluded_concept_ids, final_concepts, names_list, names_df,
                   sinkVars, travVars>>

(***************************************************************************)
(* Step 10: the graph sink. Every session.run is an auto-commit            *)
(* transaction of its own; any of them may raise. An exception leaves the  *)
(* try block, runs builder.close() in the finally clause and propagates.   *)
(***************************************************************************)
LogEntry(op, ok) == [op |-> op, ok |-> ok]

EmptyDb == [stale |-> FALSE, concepts |-> {}, names |-> {}, is_a |-> {}, maps_to |-> {}]

\* rows i+1 .. i+batch_size of a frame: df.iloc[i:i+batch_size]
Batch(rows, i) == SubSeq(rows, i + 1, Min(i + batch_size, Len(rows)))

\* the rows of a relationship frame in file order (any order of the set)
EdgeRows(edges) ==
    CHOOSE s \in [1..Cardinality(edges) -> edges] : SeqToSet(s) = edges

RaiseSwallowed(op) ==
    /\ sink_log' = Append(sink_log, LogEntry(op, FALSE))
    /\ UNCHANGED <<driver, pc, db, batch_i>>

\* the except/finally path of build_graph
Raise(op) ==
    /\ sink_log' = Append(sink_log, LogEntry(op, FALSE))
    /\ driver' = "closed"
    /\ pc' = "raised"
    /\ UNCHANGED <<db, batch_i>>

OpenDriver ==
    /\ pc = "step10"
    /\ driver' = "open"
    /\ pc' = "clear"
    /\ UNCHANGED <<inputVars, localVars, db, sink_log, batch_i, travVars>>

ClearDatabaseSkipped ==
    /\ pc = "clear"
    /\ pc' = "constraints"
    /\ UNCHANGED <<inputVars, localVars, sinkVars, travVars>>

ClearDatabase ==
    /\ pc = "clear"
    /\ \/ /\ db' = EmptyDb
          /\ sink_log' = Append(sink_log, LogEntry("clear", TRUE))
          /\ pc' = "constraints"
          /\ UNCHANGED <<driver, batch_i>>
       \/ Raise("clear")
    /\ UNCHANGED <<inputVars, localVars, travVars>>

CreateConstraints ==
    /\ pc = "constraints"
    /\ \/ /\ sink_log' = Append(sink_log, LogEntry("constraints", TRUE))
          /\ pc' = "indexes"
          /\ UNCHANGED <<driver, db, batch_i>>
       \/ Raise("constraints")
    /\ UNCHANGED <<inputVars, localVars, travVars>>

CreateIndexes ==
    /\ pc = "indexes"
    /\ \/ /\ sink_log' = Append(sink_log, LogEntry("indexes", TRUE))
          /\ pc' = "concepts"
          /\ UNCHANGED <<driver, db, batch_i>>
       \/ Raise("indexes")
    /\ UNCHANGED <<inputVars, localVars, travVars>>

\* one iteration of the loop of batch_create_concepts
ConceptBatch ==
    /\ pc = "concepts"
    /\ batch_i < Len(final_concepts)
    /\ \/ /\ db' = [db EXCEPT !.concepts =
                        @ \cup ConceptIdsOf(Batch(final_concepts, batch_i))]
          /\ sink_log' = Append(sink_log, LogEntry("concepts", TRUE))
          /\ batch_i' = batch_i + batch_size
          /\ UNCHANGED <<driver, pc>>
       \/ Raise("concepts")
    /\ UNCHANGED <<inputVars, localVars, travVars>>

ConceptsDone ==
    /\ pc = "concepts"
    /\ batch_i >= Len(final_concepts)
    /\ pc' = "names"
    /\ batch_i' = 0
    /\ UNCHANGED <<inputVars, localVars, driver, db, sink_log, travVars>>

\* one iteration of the loop of batch_create_names: MATCH finds the owning
\* Concept node, a name without one creates nothing
NameBatch ==
    /\ pc = "names"
    /\ batch_i < Len(names_df)
    /\ \/ /\ db' = [db EXCEPT !.names =
                        @ \cup {n \in SeqToSet(Batch(names_df, batch_i)) :
                                   n.concept_id \in db.concepts}]
          /\ sink_log' = Append(sink_log, LogEntry("names", TRUE))
          /\ batch_i' = batch_i + batch_size
          /\ UNCHANGED <<driver, pc>>
       \/ Raise("names")
    /\ UNCHANGED <<inputVars, localVars, travVars>>

NamesDone ==
    /\ pc = "names"
    /\ batch_i >= Len(names_df)
    /\ pc' = "IS_A"
    /\ batch_i' = 0
    /\ UNCHANGED <<inputVars, localVars, driver, db, sink_log, travVars>>

MatchedEdges(rows, i) ==
    {e \in SeqToSet(Batch(rows, i)) :
        e.concept_id_1 \in db.concepts /\ e.concept_id_2 \in db.concepts}

\* one iteration of the loop of batch_create_relationships
RelationshipBatch(relationship_type) ==
    /\ pc = relationship_type
    /\ LET rows == EdgeRows(IF relationship_type = "IS_A" THEN is_a_rels ELSE maps_to_rels)
       IN  /\ batch_i < Len(rows)
           /\ \/ /\ db' = IF relationship_type = "IS_A"
                          THEN [db EXCEPT !.is_a = @ \cup MatchedEdges(rows, batch_i)]
                          ELSE [db EXCEPT !.maps_to = @ \cup MatchedEdges(rows, batch_i)]
                 /\ sink_log' = Append(sink_log, LogEntry(relationship_type, TRUE))
                 /\ batch_i' = batch_i + batch_size
                 /\ UNCHANGED <<driver, pc>>
              \/ Raise(relationship_type)
    /\ UNCHANGED <<inputVars, localVars, travVars>>

\* the method returns (at once for an empty frame); after MAPS_TO the try
\* block ends and the finally clause closes the driver
RelationshipsDone(relationship_type) ==
    /\ pc = relationship_type
    /\ batch_i >= Cardinality(IF relationship_type = "IS_A" THEN is_a_rels ELSE maps_to_rels)
    /\ batch_i' = 0
    /\ IF relationship_type = "IS_A"
       THEN pc' = "MAPS_TO" /\ UNCHANGED driver
       ELSE pc' = "done" /\ driver' = "closed"
    /\ UNCHANGED <<inputVars, localVars, db, sink_log, travVars>>

(***************************************************************************)
(* Input tables.                                                           *)
(***************************************************************************)
RelRows(ids, kinds) ==
    {[concept_id_1 |-> a, concept_id_2 |-> b, relationship_id |-> k]
        : a \in ids, b \in ids, k \in kinds}

SynonymRow(cid, lid, val) ==
    [concept_id |-> cid, concept_synonym_name |-> val, language_concept_id |-> lid]

ConceptRow(cid, dom, voc, code) ==
    [concept_id |-> cid, domain_id |-> dom, vocabulary_id |-> voc, concept_code |-> code]

SheetRow(code, name) == [code |-> code, name |-> name]

Sheet(code_col, chinese_col, rows) ==
    [has_code_col |-> code_col, has_chinese_col |-> chinese_col, rows |-> rows]

\* the state of build_graph before step 1, with the destination holding the
\* graph of an earlier run
InitRun ==
    /\ pc = "step1"
    /\ target_synonyms = <<>>
    /\ icd10cm_chinese = <<>>
    /\ icd10pcs_chinese = <<>>
    /\ concepts_to_import = {}
    /\ additional_concepts = {}
    /\ all_concept_ids = {}
    /\ excluded_concept_ids = {}
    /\ final_concepts = <<>>
    /\ names_list = <<>>
    /\ names_df = <<>>
    /\ is_a_rels = {}
    /\ maps_to_rels = {}
    /\ driver = "none"
    /\ db = [EmptyDb EXCEPT !.stale = TRUE]
    /\ sink_log = <<>>
    /\ batch_i = 0

NoTraversal ==
    /\ t_edges = {}
    /\ t_dir = "none"
    /\ t_start = 0
    /\ t_stack = <<>>
    /\ t_visited = {}
    /\ t_adds = <<>>
    /\ t_pc = "idle"

NextCompute ==
    \/ LoadInputs
    \/ Expand
    \/ Exclude
    \/ BuildNames
    \/ FilterRelationships

(***************************************************************************)
(* Hierarchy inputs: IS_A rows between distinct concepts 1..NumConcepts,   *)
(* concepts 1..k seeded by a Chinese synonym, every concept an ICD10CM row *)
(* with a spreadsheet name, at most MaxExcluded of them Geography.         *)
(***************************************************************************)
ClosureConcepts(excluded) ==
    [i \in ConceptIds |->
        ConceptRow(i, IF i \in excluded THEN "Geography" ELSE "Condition",
                   "ICD10CM", ToString(i))]

InitClosure ==
    /\ relationships_df \in
         SubsetsUpTo({r \in RelRows(ConceptIds, {"Is a"}) : r.concept_id_1 # r.concept_id_2},
                     MaxRels)
    /\ \E k \in 1..MaxSeeds : synonyms_df = [i \in 1..k |-> SynonymRow(i, "zh", "Y")]
    /\ \E excluded \in SubsetsUpTo(ConceptIds, MaxExcluded) :
          concepts_df = ClosureConcepts(excluded)
    /\ cm_sheet = Sheet(TRUE, TRUE, [i \in ConceptIds |-> SheetRow(ToString(i), "X")])
    /\ pcs_sheet = Sheet(TRUE, TRUE, <<>>)
    /\ InitRun
    /\ NoTraversal

SpecClosure == InitClosure /\ [][NextCompute]_vars

(***************************************************************************)
(* Mixed-kind inputs: rows of every relationship kind between concepts     *)
(* 1..MixedConcepts (self-references included), concepts 1..k seeded by a  *)
(* Chinese synonym, the last concept named in a non-target language only;  *)
(* concept 1 is a SNOMED row, the others ICD10CM rows with a spreadsheet   *)
(* name; the concept table is complete, or lacks the row of the first or   *)
(* last concept, or tags one of the two Geography, or repeats a row.       *)
(***************************************************************************)
MixedIds == 1..MixedConcepts

MixedConceptTables ==
    LET row(i, dom) == ConceptRow(i, dom, IF i = 1 THEN "SNOMED" ELSE "ICD10CM",
                                  ToString(i))
        full == [i \in MixedIds |-> row(i, "Condition")]
    IN  {full,
         [full EXCEPT ![1] = row(1, "Geography")],
         [full EXCEPT ![MixedConcepts] = row(MixedConcepts, "Geography")],
         SubSeq(full, 2, MixedConcepts),
         SubSeq(full, 1, MixedConcepts - 1),
         full \o <<full[1]>>}

InitExpand ==
    /\ relationships_df \in SubsetsUpTo(RelRows(MixedIds, RelKinds), MaxMixedRels)
    /\ \E k \in 1..MaxSeeds :
          synonyms_df = [i \in 1..k |-> SynonymRow(i, "zh", "Y")]
                        \o <<SynonymRow(MixedConcepts, "en", "Y")>>
    /\ concepts_df \in MixedConceptTables
    /\ cm_sheet = Sheet(TRUE, TRUE, [i \in MixedIds |-> SheetRow(ToString(i), "X")])
    /\ pcs_sheet = Sheet(TRUE, TRUE, <<>>)
    /\ InitRun
    /\ NoTraversal

SpecExpand == InitExpand /\ [][NextCompute]_vars

(***************************************************************************)
(* Reference definitions for the claims: reachability over the IS_A rows   *)
(* as a least fixed point, independent of the recursive traversal.         *)
(***************************************************************************)
RECURSIVE UpClosure(_, _)
UpClosure(isa, S) ==
    LET next == S \cup {r.concept_id_2 : r \in {q \in isa : q.concept_id_1 \in S}}
    IN  IF next = S THEN S ELSE UpClosure(isa, next)

RECURSIVE DownClosure(_, _)
DownClosure(isa, S) ==
    LET next == S \cup {r.concept_id_1 : r \in {q \in isa : q.concept_id_2 \in S}}
    IN  IF next = S THEN S ELSE DownClosure(isa, next)

SeedSet ==
    {synonyms_df[i].concept_id :
        i \in {j \in DOMAIN synonyms_df :
                 synonyms_df[j].language_concept_id \in DOMAIN language_map}}

OneHopSet ==
    SeedSet \cup
    UNION {{r.concept_id_1, r.concept_id_2} :
             r \in {q \in relationships_df :
                      /\ q.relationship_id \in {"Is a", "Maps to"}
                      /\ (q.concept_id_1 \in SeedSet \/ q.concept_id_2 \in SeedSet)}}

AfterExclusion == pc \notin {"step1", "step5", "step7"}

\* C1 (as claimed): after expansion and exclusion, the parent P of every
\* 'Is a' row C -> P with C in the final concept-id set is in the final set
\* too, unless the exclusion filter removed P.
C1_ClosureComplete ==
    AfterExclusion =>
        \A r \in IsARows(relationships_df) :
            r.concept_id_1 \in all_concept_ids =>
                \/ r.concept_id_2 \in all_concept_ids
                \/ r.concept_id_2 \in excluded_concept_ids

\* C2: before domain exclusion the computed concept-id set is exactly the
\* seeds, the endpoints of their 'Is a' / 'Maps to' rows, and every IS_A
\* ancestor and descendant of that union.
C2_ExpansionResult ==
    pc = "step7" =>
        all_concept_ids =
            UpClosure(IsARows(relationships_df), OneHopSet)
            \cup DownClosure(IsARows(relationships_df), OneHopSet)

\* C2 witness: a one-hop neighbour reached over a 'Maps to' row brings in a
\* concept that is neither a seed nor a one-hop neighbour.
C2_Witness ==
    /\ pc = "step7"
    /\ \E r \in relationships_df : /\ r.relationship_id = "Maps to"
                                   /\ r.concept_id_1 \in SeedSet
                                   /\ r.concept_id_2 \notin SeedSet
    /\ all_concept_ids \ OneHopSet # {}

(***************************************************************************)
(* get_all_ancestors / get_all_descendants call by call. A frame of        *)
(* t_stack is one active call: its concept and the neighbours its for loop *)
(* has still to pass to a recursive call. t_adds counts visited.add(c).    *)
(***************************************************************************)
TravIds == 1..TravNodes

\* parents[c] (direction "up") or children[c] (direction "down"), empty
\* when c is no key of the dictionary
Neighbours(edges, dir, c) ==
    IF dir = "up"
    THEN LET parents == BuildParents(edges)
         IN  IF c \in DOMAIN parents THEN parents[c] ELSE {}
    ELSE LET children == BuildChildren(edges)
         IN  IF c \in DOMAIN children THEN children[c] ELSE {}

NeverVisited(concept_id, visited) == FALSE

\* `if concept_id in visited: return visited`
AlreadyVisited(concept_id, visited) == concept_id \in visited

\* visited.add(concept_id) and entry into the for loop
EnterCall(c) ==
    /\ t_visited' = t_visited \cup {c}
    /\ t_adds' = [t_adds EXCEPT ![c] = @ + 1]

\* the outermost call, visited = set()
TravStart ==
    /\ t_pc = "start"
    /\ EnterCall(t_start)
    /\ t_stack' = <<[concept_id |-> t_start,
                     todo |-> Neighbours(t_edges, t_dir, t_start)]>>
    /\ t_pc' = "run"
    /\ UNCHANGED <<t_edges, t_dir, t_start>>

\* the for loop of the innermost call passes its next neighbour to a
\* recursive call, which adds it and starts its own loop
TravVisit ==
    /\ t_pc = "run"
    /\ \E n \in t_stack[Len(t_stack)].todo :
          /\ ~ AlreadyVisited(n, t_visited)
          /\ EnterCall(n)
          /\ t_stack' = Append([t_stack EXCEPT ![Len(t_stack)].todo = @ \ {n}],
                               [concept_id |-> n,
                                todo |-> Neighbours(t_edges, t_dir, n)])
    /\ UNCHANGED <<t_edges, t_dir, t_start, t_pc>>

\* the recursive call finds its concept in visited and returns at once
TravRevisit ==
    /\ t_pc = "run"
    /\ \E n \in t_stack[Len(t_stack)].todo :
          /\ AlreadyVisited(n, t_visited)
          /\ t_stack' = [t_stack EXCEPT ![Len(t_stack)].todo = @ \ {n}]
    /\ UNCHANGED <<t_edges, t_dir, t_start, t_visited, t_adds, t_pc>>

\* the for loop of the innermost call is exhausted: return visited
TravReturn ==
    /\ t_pc = "run"
    /\ t_stack[Len(t_stack)].todo = {}
    /\ t_stack' = SubSeq(t_stack, 1, Len(t_stack) - 1)
    /\ t_pc' = IF Len(t_stack) = 1 THEN "done" ELSE "run"
    /\ UNCHANGED <<t_edges, t_dir, t_start, t_visited, t_adds>>

pipelineVars == <<inputVars, pc, localVars, sinkVars>>

NextTrav ==
    /\ \/ TravStart
       \/ TravVisit
       \/ TravRevisit
       \/ TravReturn
    /\ UNCHANGED pipelineVars

\* the cycle A -> B -> C -> A on concepts 1, 2, 3
CycleEdges ==
    {[concept_id_1 |-> 1, concept_id_2 |-> 2, relationship_id |-> "Is a"],
     [concept_id_1 |-> 2, concept_id_2 |-> 3, relationship_id |-> "Is a"],
     [concept_id_1 |-> 3, concept_id_2 |-> 1, relationship_id |-> "Is a"]}

InitTrav ==
    /\ \E extra \in SubsetsUpTo(RelRows(TravIds, {"Is a"}), MaxExtra) :
          t_edges = CycleEdges \cup extra
    /\ t_dir \in {"up", "down"}
    /\ t_start \in {1, 2, 3}
    /\ t_stack = <<>>
    /\ t_visited = {}
    /\ t_adds = [c \in TravIds |-> 0]
    /\ t_pc = "start"
    /\ synonyms_df = <<>>
    /\ relationships_df = {}
    /\ concepts_df = <<>>
    /\ cm_sheet = Sheet(TRUE, TRUE, <<>>)
    /\ pcs_sheet = Sheet(TRUE, TRUE, <<>>)
    /\ InitRun

\* a call that has started runs to its return: the interpreter does not stop
SpecTrav == InitTrav /\ [][NextTrav]_vars /\ WF_vars(NextTrav)

\* what the traversal must return: everything reachable from the start
TravReachable ==
    IF t_dir = "up" THEN UpClosure(t_edges, {t_start})
    ELSE DownClosure(t_edges, {t_start})

\* C3: on an IS_A edge set containing the cycle 1 -> 2 -> 3 -> 1 the
\* traversal from 1, 2 or 3 in either direction terminates, adds no concept
\* to visited twice, never nests deeper than the number of concepts, and
\* returns exactly the concepts reachable from the start.
C3_CycleSafety ==
    /\ <>(t_pc = "done")
    /\ [](\A c \in TravIds : t_adds[c] <= 1)
    /\ [](Len(t_stack) <= TravNodes)
    /\ [](t_pc = "done" => t_visited = TravReachable)

\* C3 witness: a finished traversal that went round the cycle and on to a
\* concept outside it.
C3_Witness ==
    /\ t_pc = "done"
    /\ {1, 2, 3} \subseteq t_visited
    /\ t_visited \ {1, 2, 3} # {}

(***************************************************************************)
(* Name inputs: up to MaxSyn synonym rows (duplicates allowed) in Chinese, *)
(* German or a non-target language for concepts 1..NameConcepts; each      *)
(* concept has no row or a row of one of the three vocabularies, possibly  *)
(* Geography; the ICD-10-CM sheet names code "1", the ICD-10-PCS sheet     *)
(* names code "2" twice and has rows with an empty cell; at most one IS_A  *)
(* row links concepts 1 and 2.                                             *)
(***************************************************************************)
NameIds == 1..NameConcepts

NameSynRows ==
    {SynonymRow(i, lv[1], lv[2]) :
        i \in NameIds,
        lv \in {<<"zh", "X">>, <<"zh", "Y">>, <<"de", "Y">>, <<"en", "Y">>}}

NameConceptKinds ==
    {<<"absent", "absent">>, <<"Condition", "SNOMED">>, <<"Condition", "ICD10CM">>,
     <<"Condition", "ICD10PCS">>, <<"Geography", "ICD10CM">>}

RECURSIVE NameConceptTable(_, _)
NameConceptTable(kind, n) ==
    IF n = 0 THEN <<>>
    ELSE NameConceptTable(kind, n - 1)
         \o (IF kind[n][1] = "absent" THEN <<>>
             ELSE <<ConceptRow(n, kind[n][1], kind[n][2], ToString(n))>>)

NameRels ==
    {{},
     {[concept_id_1 |-> 1, concept_id_2 |-> 2, relationship_id |-> "Is a"]},
     {[concept_id_1 |-> 2, concept_id_2 |-> 1, relationship_id |-> "Is a"]}}

InitNames ==
    /\ synonyms_df \in SeqsUpTo(NameSynRows, MaxSyn)
    /\ \E kind \in [NameIds -> NameConceptKinds] :
          concepts_df = NameConceptTable(kind, NameConcepts)
    /\ relationships_df \in NameRels
    /\ cm_sheet = Sheet(TRUE, TRUE, <<SheetRow("1", "X")>>)
    /\ pcs_sheet = Sheet(TRUE, TRUE, <<SheetRow("2", "Y"), SheetRow("2", "X"),
                                       SheetRow(NoValue, "Y"), SheetRow("1", NoValue)>>)
    /\ InitRun
    /\ NoTraversal

SpecNames == InitNames /\ [][NextCompute]_vars

(***************************************************************************)
(* Sink inputs: 'Is a' and 'Maps to' rows between concepts                 *)
(* 1..SinkConcepts, concepts 1..k seeded by a German synonym, a complete   *)
(* SNOMED concept table, and every combination of present and missing      *)
(* sheet columns.                                                          *)
(***************************************************************************)
SinkIds == 1..SinkConcepts

SheetHeaders == {Sheet(c, z, <<>>) : c \in BOOLEAN, z \in BOOLEAN}

Init ==
    /\ relationships_df \in SubsetsUpTo(RelRows(SinkIds, {"Is a", "Maps to"}), MaxSinkRels)
    /\ \E k \in 0..SinkConcepts : synonyms_df = [i \in 1..k |-> SynonymRow(i, "de", "Y")]
    /\ concepts_df = [i \in SinkIds |-> ConceptRow(i, "Condition", "SNOMED", ToString(i))]
    /\ cm_sheet \in SheetHeaders
    /\ pcs_sheet \in SheetHeaders
    /\ InitRun
    /\ NoTraversal

Next ==
    \/ LoadInputs
    \/ Expand
    \/ Exclude
    \/ BuildNames
    \/ FilterRelationships
    \/ OpenDriver
    \/ ClearDatabase
    \/ CreateConstraints
    \/ CreateIndexes
    \/ ConceptBatch
    \/ ConceptsDone
    \/ NameBatch
    \/ NamesDone
    \/ RelationshipBatch("IS_A")
    \/ RelationshipsDone("IS_A")
    \/ RelationshipBatch("MAPS_TO")
    \/ RelationshipsDone("MAPS_TO")

Spec == Init /\ [][Next]_vars

(***************************************************************************)
(* Claims about exclusion, names and edges.                                *)
(***************************************************************************)
\* the concepts the concept table tags with an excluded domain
ExcludedDomainIds ==
    {concepts_df[i].concept_id :
        i \in {j \in DOMAIN concepts_df : concepts_df[j].domain_id \in EXCLUDED_DOMAINS}}

FinalTableIds == {final_concepts[i].concept_id : i \in DOMAIN final_concepts}

NameConceptIds(names) == {names[i].concept_id : i \in DOMAIN names}

EdgeEndpoints(edges) == UNION {{e.concept_id_1, e.concept_id_2} : e \in edges}

\* C4: a concept of an excluded domain is in no row of the final concept
\* table, owns no entry of the name list before or after deduplication, and
\* is no endpoint of a final IS_A or MAPS_TO edge.
C4_ExclusionPropagation ==
    \A x \in ExcludedDomainIds :
        /\ x \notin FinalTableIds
        /\ AfterExclusion => x \notin all_concept_ids
        /\ x \notin NameConceptIds(names_list)
        /\ x \notin NameConceptIds(names_df)
        /\ x \notin EdgeEndpoints(is_a_rels)
        /\ x \notin EdgeEndpoints(maps_to_rels)

\* C4 witness: the run reached the sink step with a concept that entered the
\* expanded set by hierarchy closure only, was removed as excluded, and is
\* an endpoint of a relationship row whose other endpoint was imported.
C4_Witness ==
    /\ pc = "step10"
    /\ \E x \in excluded_concept_ids :
          /\ x \notin concepts_to_import \cup additional_concepts
          /\ \E r \in relationships_df :
                /\ r.relationship_id = "Is a"
                /\ r.concept_id_1 = x
                /\ r.concept_id_2 \in FinalTableIds

\* the spreadsheet name of a code: the last row of the vocabulary's sheet
\* with that code and a usable name cell
SheetNameOf(vocabulary_id, code) ==
    LET rows == IF vocabulary_id = "ICD10CM" THEN cm_sheet.rows ELSE pcs_sheet.rows
        hits == {i \in DOMAIN rows : rows[i].code = code /\ rows[i].name # NoValue}
    IN  IF hits = {} THEN NoValue
        ELSE rows[CHOOSE i \in hits : \A j \in hits : j <= i].name

HasName(names, cid, lid, val) ==
    \E i \in DOMAIN names : NameKey(names[i]) = <<cid, lid, val>>

\* an imported ICD10CM / ICD10PCS concept with spreadsheet name X and a
\* Chinese synonym row of another value: <<concept row, synonym row>>
PrecedenceCases ==
    {cs \in SeqToSet(final_concepts) \X SeqToSet(synonyms_df) :
        /\ cs[1].vocabulary_id \in {"ICD10CM", "ICD10PCS"}
        /\ SheetNameOf(cs[1].vocabulary_id, cs[1].concept_code) # NoValue
        /\ cs[2].concept_id = cs[1].concept_id
        /\ cs[2].language_concept_id = "zh"
        /\ cs[2].concept_synonym_name
             # SheetNameOf(cs[1].vocabulary_id, cs[1].concept_code)}

\* C5: for an imported ICD10CM / ICD10PCS concept with spreadsheet name X
\* and a Chinese synonym Y # X, the merged name list holds
\* (concept, Chinese, X) and not (concept, Chinese, Y).
C5_Precedence ==
    pc \in {"step9", "step10"} =>
        \A cs \in PrecedenceCases :
            /\ HasName(names_df, cs[1].concept_id, "zh",
                       SheetNameOf(cs[1].vocabulary_id, cs[1].concept_code))
            /\ ~ HasName(names_df, cs[1].concept_id, "zh", cs[2].concept_synonym_name)

\* C5 witness: the name list was built for such a concept, of either
\* vocabulary.
C5_Witness ==
    /\ pc = "step9"
    /\ \E cs \in PrecedenceCases : cs[1].vocabulary_id = "ICD10PCS"

\* C6: the deduplicated name list has no two entries with the same
\* (concept, language, value) triple and holds every triple collected
\* before deduplication.
C6_NameUniqueness ==
    pc \in {"step9", "step10"} =>
        /\ \A i, j \in DOMAIN names_df :
              NameKey(names_df[i]) = NameKey(names_df[j]) => i = j
        /\ {NameKey(names_df[i]) : i \in DOMAIN names_df}
             = {NameKey(names_list[i]) : i \in DOMAIN names_list}

\* C6 witness: the collected list held the same triple twice.
C6_Witness ==
    /\ pc = "step9"
    /\ \E i, j \in DOMAIN names_list :
          i # j /\ NameKey(names_list[i]) = NameKey(names_list[j])
    /\ Len(names_df) < Len(names_list)

\* C7: every final IS_A and MAPS_TO edge has both endpoints in the final
\* concept table, and the relationship filter always goes on to the sink
\* step: a row with an outside endpoint is dropped, not raised.
C7_EdgeIntegrity ==
    /\ [](EdgeEndpoints(is_a_rels) \cup EdgeEndpoints(maps_to_rels) \subseteq FinalTableIds)
    /\ [][pc = "step9" => pc' = "step10"]_vars

\* C7 witness: the sink step was reached with final edges and with a
\* 'Maps to' row that has one endpoint in the final table and one outside.
C7_Witness ==
    /\ pc = "step10"
    /\ is_a_rels # {}
    /\ \E r \in relationships_df :
          /\ r.relationship_id = "Maps to"
          /\ r.concept_id_1 \in FinalTableIds
          /\ r.concept_id_2 \notin FinalTableIds

\* C8: no final MAPS_TO edge maps a concept to itself.
C8_NoSelfMap ==
    \A e \in maps_to_rels : e.concept_id_1 # e.concept_id_2

\* C8 witness: the relationship filter ran on a table with a 'Maps to' row
\* from an imported concept to itself, beside a 'Maps to' edge it kept.
C8_Witness ==
    /\ pc = "step10"
    /\ maps_to_rels # {}
    /\ \E r \in relationships_df :
          /\ r.relationship_id = "Maps to"
          /\ r.concept_id_1 = r.concept_id_2
          /\ r.concept_id_1 \in FinalTableIds

(***************************************************************************)
(* Claims about the sink.                                                  *)
(***************************************************************************)
SinkFailed == \E i \in DOMAIN sink_log : ~ sink_log[i].ok

\* C9 (as claimed): when a sink operation of the run has failed, the
\* destination holds no node and no edge written by the run's earlier
\* batches.
C9_NoPartialCommit ==
    SinkFailed =>
        /\ db.concepts = {}
        /\ db.names = {}
        /\ db.is_a = {}
        /\ db.maps_to = {}

\* C10: a failed sink operation is the last one the run issues (no retry,
\* no later batch), the run ends raised and the driver is closed.
C10_SinkFailureFatal ==
    /\ \A i \in DOMAIN sink_log : ~ sink_log[i].ok => i = Len(sink_log)
    /\ SinkFailed => pc = "raised" /\ driver = "closed"

\* C10 witness: the name batch failed after the concept batch had been
\* written, with relationship batches still to come.
C10_Witness ==
    /\ SinkFailed
    /\ sink_log[Len(sink_log)].op = "names"
    /\ db.concepts # {}
    /\ is_a_rels # {}
    /\ maps_to_rels # {}

(***************************************************************************)
(* Claims about the order of the sink operations.                          *)
(***************************************************************************)
\* position of a sink operation in the order build_graph is claimed to keep
OpRank(op) ==
    CASE op = "clear" -> 1
      [] op = "constraints" -> 2
      [] op = "indexes" -> 3
      [] op = "concepts" -> 4
      [] op = "names" -> 5
      [] op = "IS_A" -> 6
      [] op = "MAPS_TO" -> 7

\* rows of final_concepts covered by the concept batches submitted before
\* the j-th sink operation
ConceptRowsSubmittedBefore(j) ==
    Cardinality({i \in 1..(j - 1) : sink_log[i].op = "concepts" /\ sink_log[i].ok})
        * batch_size

\* C11: the first sink operation is the clear and nothing is written to a
\* destination still holding the old graph; the operations are issued in
\* the order clear, constraints, indexes, concepts, names, IS_A, MAPS_TO; a
\* name or relationship batch is submitted only after the concept batches
\* have covered every row of the concept table; every edge of the
\* destination joins two Concept nodes that exist.
C11_SinkOrdering ==
    /\ sink_log # <<>> => sink_log[1].op = "clear"
    /\ (db.concepts # {} \/ db.names # {} \/ db.is_a # {} \/ db.maps_to # {})
         => ~ db.stale /\ sink_log[1] = LogEntry("clear", TRUE)
    /\ \A i, j \in DOMAIN sink_log :
          i < j => OpRank(sink_log[i].op) <= OpRank(sink_log[j].op)
    /\ \A j \in DOMAIN sink_log :
          sink_log[j].op \in {"names", "IS_A", "MAPS_TO"}
            => ConceptRowsSubmittedBefore(j) >= Len(final_concepts)
    /\ EdgeEndpoints(db.is_a) \cup EdgeEndpoints(db.maps_to) \subseteq db.concepts

\* C11 witness: a run that finished after writing concepts, names and edges
\* of both types.
C11_Witness ==
    /\ pc = "done"
    /\ db.concepts # {}
    /\ db.names # {}
    /\ db.is_a # {}
    /\ db.maps_to # {}

(***************************************************************************)
(* Claims about names and the concepts they belong to.                     *)
(***************************************************************************)
\* C12: once the names are collected, the concept identifier of every entry
\* of the merged name list is the identifier of a row of the final concept
\* table, whatever rows the synonym, relationship and concept tables hold.
C12_NameHasConcept ==
    pc \in {"step9", "step10"} => NameConceptIds(names_df) \subseteq FinalTableIds

\* seed concepts that are rows of the final concept table
SurvivingSeeds == SeedSet \cap FinalTableIds

\* C13: once the names are collected, every concept of the final concept
\* table that is a seed (has a synonym in a target language) has at least
\* one entry in the merged name list.
C13_NamedOrStructural ==
    pc \in {"step9", "step10"} => SurvivingSeeds \subseteq NameConceptIds(names_df)

(***************************************************************************)
(* Claim about the column resolution of the spreadsheet.                   *)
(***************************************************************************)
\* the sheet has no header matching the code marker or none matching the
\* Chinese-name marker
MissingColumn(sheet) == ~ sheet.has_code_col \/ ~ sheet.has_chinese_col

ASheetMissesAColumn == MissingColumn(cm_sheet) \/ MissingColumn(pcs_sheet)

\* C14: when one of the two sheets misses a column, the run goes from its
\* first step straight to the raised exception, and at no moment of that
\* run is the driver opened, a sink operation submitted or the destination
\* changed.
C14_FailFastColumns ==
    /\ [](ASheetMissesAColumn => /\ pc \in {"step1", "raised"}
                                 /\ driver = "none"
                                 /\ sink_log = <<>>)
    /\ [][ASheetMissesAColumn => (pc' = "raised" /\ db' = db)]_vars

\* C14 witness: the run raised on the second sheet, whose Chinese-name
\* column is missing, after the first sheet resolved both columns.
C14_Witness ==
    /\ pc = "raised"
    /\ ~ MissingColumn(cm_sheet)
    /\ pcs_sheet.has_code_col
    /\ ~ pcs_sheet.has_chinese_col
    /\ synonyms_df # <<>>

(***************************************************************************)
(* Claim about the order of expansion and exclusion.                       *)
(***************************************************************************)
\* the 'Is a' rows of the relationship table, excluded domains included
AllIsARows == {r \in relationships_df : r.relationship_id = "Is a"}

\* the 'Is a' rows that do not touch concept e
IsARowsAvoiding(e) == {r \in AllIsARows : r.concept_id_1 # e /\ r.concept_id_2 # e}

\* ancestors and descendants of the starting concepts (seeds and one-hop
\* neighbours) along the given 'Is a' rows
HierarchyOfStarting(isa) == UpClosure(isa, OneHopSet) \cup DownClosure(isa, OneHopSet)

\* C15: after exclusion, every concept that is an ancestor or a descendant
\* of a starting concept along 'Is a' rows of any domain is in the final
\* concept-id set and the final concept table when its own domain is not
\* excluded, also when every such path runs through an excluded-domain
\* concept; when its domain is excluded it is in neither, and it is no
\* endpoint of a final IS_A edge.
C15_ExclusionNoBoundary ==
    AfterExclusion =>
        \A x \in HierarchyOfStarting(AllIsARows) :
            IF x \in ExcludedDomainIds
            THEN /\ x \notin all_concept_ids
                 /\ x \notin FinalTableIds
                 /\ x \notin EdgeEndpoints(is_a_rels)
            ELSE /\ x \in all_concept_ids
                 /\ x \in FinalTableIds

\* C15 witness: the sink step was reached with an imported concept x that is
\* not a starting concept and an excluded-domain concept e that is not a
\* starting concept either, x being cut off from every starting concept once
\* the rows of e are taken away, and the row joining x and e is not among
\* the final IS_A edges.
C15_Witness ==
    /\ pc = "step10"
    /\ \E e \in ExcludedDomainIds \ OneHopSet :
       \E x \in FinalTableIds \ OneHopSet :
          /\ e \in HierarchyOfStarting(AllIsARows)
          /\ e \notin FinalTableIds
          /\ x \notin HierarchyOfStarting(IsARowsAvoiding(e))
          /\ \E r \in AllIsARows :
                /\ {r.concept_id_1, r.concept_id_2} = {x, e}
                /\ Edge(r) \notin is_a_rels

====
